---- MODULE Spec2Model ----
(***************************************************************************)
(* A model of cycleSpitter's core: the budget accumulator                  *)
(* (cycle_spitter/accumulator.rs, accumulate_chunk), the repeat expander   *)
(* (cycle_spitter/block.rs, process_block), the template parser            *)
(* (cycle_spitter/template.rs, parse_template), the key normalizer         *)
(* (cycle_spitter/cycles.rs, normalize_line_ext) and the window loop of    *)
(* the driver (main.rs, main).                                             *)
(*                                                                         *)
(* A source line is abstracted to the values of the predicates the code    *)
(* evaluates on it; its text is kept as an opaque identity so that         *)
(* "emitted verbatim" and "annotated" are different things.  Indices are   *)
(* 0-based as in the source; sequence access is therefore s[i + 1].        *)
(***************************************************************************)
EXTENDS Integers, Sequences, FiniteSets, TLC

VARIABLES
    lines,          \* accumulate_chunk: the flat instruction stream
    start_index,    \* accumulate_chunk: argument
    target,         \* accumulate_chunk: argument
    initial_offset, \* accumulate_chunk: argument
    local_sum,      \* accumulate_chunk: running offset
    chunk,          \* accumulate_chunk: output lines
    i,              \* accumulate_chunk: scan index
    pc,             \* accumulate_chunk: position in the function body
    warned,         \* accumulate_chunk: the mismatch diagnostic was printed
    blines,         \* process_block: input lines (token sequences)
    bresult,        \* process_block: returned flat lines
    bnext,          \* process_block: returned index
    bpc,            \* process_block: "call" before, "ret" after the top-level call
    tlines,         \* parse_template: the template's lines
    tidx,           \* parse_template: number of lines the loop has taken
    sections,       \* parse_template: sections pushed so far
    current_code,   \* parse_template: injection lines of the section being built
    current_label,  \* parse_template: label of the section being built
    cycle_offset,   \* parse_template: running offset
    tpc,            \* parse_template: "scan", "done" or "panic"
    nbase,          \* normalize_line_ext: the bare instruction the line is written from
    nline,          \* normalize_line_ext: the line, a sequence of characters
    npass,          \* normalize_line_ext: how often a returned key was passed back in
    nbuild,         \* normalize_line_ext: overflow checks on ("debug") or off ("release")
    nout,           \* normalize_line_ext: what the call produced
    npc,            \* normalize_line_ext: "call" before, "ret" after
    flat_lines,     \* main: the flat instruction stream
    template_sections, \* main: the parsed template
    current_index,  \* main: index of the next stream line
    final_output,   \* main: the output lines so far
    line_count,     \* main: scanlines created
    diagnostics,    \* main: the warnings printed on stderr
    dpc             \* main: "loop" in the window loop, "done" after it

vars == <<lines, start_index, target, initial_offset, local_sum, chunk, i, pc,
          warned, blines, bresult, bnext, bpc, tlines, tidx, sections,
          current_code, current_label, cycle_offset, tpc, nbase, nline, npass,
          nbuild, nout, npc, flat_lines, template_sections, current_index,
          final_output, line_count, diagnostics, dpc>>

accVars == <<lines, start_index, target, initial_offset, local_sum, chunk, i,
             pc, warned>>

blockVars == <<blines, bresult, bnext, bpc>>

tmplVars == <<tlines, tidx, sections, current_code, current_label,
              cycle_offset, tpc>>

normVars == <<nbase, nline, npass, nbuild, nout, npc>>

driverVars == <<flat_lines, template_sections, current_index, final_output,
                line_count, diagnostics, dpc>>

----------------------------------------------------------------------------
(* Bounds of the model *)

MaxLines == 3

MaxTarget == 8

MaxBlockLines == 5

MaxTemplateLines == 4

MaxPad == 1

MaxPasses == 2

MaxFlat == 3

MaxSections == 2

MaxWindows == 3

(* Program constant: cycles of one filler instruction *)
NopCycles == 4

(* Program constant: cycles of one scanline *)
SCANLINE_CYCLES == 512

SeqsUpTo(S, n) == UNION {[1..k -> S] : k \in 0..n}

Min(a, b) == IF a < b THEN a ELSE b

----------------------------------------------------------------------------
(* Source lines of the flat stream.                                        *)
(*   blank    line.trim().is_empty()                                       *)
(*   comment  line.trim().starts_with(";")                                 *)
(*   set      line.contains(" set ")                                       *)
(*   equ      line.contains(" equ ")                                       *)
(*   ovr      the number captured by REG_NUMBER_RE, -1 when no match       *)
(*   tab      the cost table's entry for the line's key, <<>> when absent  *)
(*   regs     the register count normalize_line_ext returns                *)

Line(text, blank, comment, set, equ, ovr, tab, regs) ==
    [tag |-> "line", text |-> text, blank |-> blank, comment |-> comment,
     set |-> set, equ |-> equ, ovr |-> ovr, tab |-> tab, regs |-> regs]

AccLines ==
    { Line("   ",                  TRUE,  FALSE, FALSE, FALSE, -1, <<>>, 0),
      Line("; wait (8)",           FALSE, TRUE,  FALSE, FALSE,  8, <<>>, 0),
      Line("x set 1",              FALSE, FALSE, TRUE,  FALSE, -1, <<>>, 0),
      Line("n equ 2",              FALSE, FALSE, FALSE, TRUE,  -1, <<>>, 0),
      Line("move.w a1,a2 ; (2)",   FALSE, FALSE, FALSE, FALSE,  2, <<>>, 0),
      Line("add #2,d3 ; (6)",      FALSE, FALSE, FALSE, FALSE,  6, <<>>, 0),
      Line("movem.l d0-d1,-(sp)",  FALSE, FALSE, FALSE, FALSE, -1, <<4, 2>>, 2),
      Line("bne.s loop",           FALSE, FALSE, FALSE, FALSE, -1, <<3, 5>>, 0),
      Line("n equ 2 ; (4)",        FALSE, FALSE, FALSE, TRUE,   4, <<>>, 0),
      Line("customop d1",          FALSE, FALSE, FALSE, FALSE, -1, <<>>, 0) }

InitialOffsets == {0, 16}

----------------------------------------------------------------------------
(* cycles.rs: lookup_cycles *)

LookupKey(line) == IF line.tab = <<>> THEN "unknown key" ELSE "table key"

lookup_cycles(line) ==
    IF line.tab # <<>>
    THEN [cycles |-> line.tab, lookup |-> LookupKey(line), reg_count |-> line.regs]
    ELSE [cycles |-> <<0>>, lookup |-> LookupKey(line), reg_count |-> line.regs]

(* helpers.rs: extract_cycle_count; None is the record [none |-> TRUE] *)

None == [none |-> TRUE]

Some(c) == [none |-> FALSE, cycles |-> c.cycles, lookup |-> c.lookup,
            reg_count |-> c.reg_count]

(* a slip: the skip predicate is asked before the override is looked for *)
ExtractSkipFirst(line, should_skip) ==
    IF should_skip THEN None
    ELSE IF line.ovr >= 0
    THEN Some([cycles |-> <<line.ovr>>, lookup |-> "n/a", reg_count |-> 0])
    ELSE Some(lookup_cycles(line))

extract_cycle_count(line, should_skip) ==
    IF line.ovr >= 0
    THEN Some([cycles |-> <<line.ovr>>, lookup |-> "n/a", reg_count |-> 0])
    ELSE IF should_skip THEN None
    ELSE Some(lookup_cycles(line))

(* accumulator.rs: the skip predicate of accumulate_chunk *)
skip_predicate(line) == line.comment \/ line.equ

(* helpers.rs: format_accumulated_instruction *)
format_accumulated_instruction(line, lookup, cycles, offset) ==
    [tag |-> "annot", text |-> line.text, cycles |-> cycles, lookup |-> lookup,
     offset |-> offset]

----------------------------------------------------------------------------
(* accumulator.rs: accumulate_chunk *)

CurLine == lines[i + 1]

Delta == local_sum - initial_offset

(* the while condition, line 84 *)
LoopCond == i < Len(lines) /\ Delta < target

IsBlankOrComment(line) == line.blank \/ line.comment

IsSetLine(line) == line.set

cycle_option(line) == extract_cycle_count(line, skip_predicate(line))

(* line 105: the not-taken (first) value is used for accounting *)
base_cycles(c) == c.cycles[1]

(* a rounding slip: the residual rounded up instead of truncated *)
NumNopRoundedUp(diff) == (diff + NopCycles - 1) \div NopCycles

(* lines 109 and 129: each NOP is 4 cycles *)
NumNop(diff) == diff \div NopCycles

(* lines 110-114 and 132-136: num_nop filler lines, each with its own offset *)
NopLines(sum, num_nop) ==
    [k \in 1..num_nop |-> [tag |-> "nop", offset |-> sum + NopCycles * (k - 1)]]

(* a slip: the line is skipped without being pushed *)
PassThroughDropped(c, line) == c

(* lines 87 and 94: chunk.push(line.clone()) *)
PassThrough(c, line) == Append(c, line)

(* a slip: the instruction's cost is left out of the overflow test *)
OverflowsWithoutCost(c) == Delta > target

(* lines 107: the overflow test *)
Overflows(c) == Delta + base_cycles(c) > target

AccInit ==
    /\ lines \in SeqsUpTo(AccLines, MaxLines)
    /\ start_index \in 0..Min(1, Len(lines))
    /\ target \in 0..MaxTarget
    /\ initial_offset \in InitialOffsets
    /\ local_sum = initial_offset
    /\ chunk = <<>>
    /\ i = start_index
    /\ pc = "loop"
    /\ warned = FALSE

(* lines 86-90 *)
PassBlankOrComment ==
    /\ pc = "loop" /\ LoopCond
    /\ IsBlankOrComment(CurLine)
    /\ chunk' = PassThrough(chunk, CurLine)
    /\ i' = i + 1
    /\ UNCHANGED <<lines, start_index, target, initial_offset, local_sum, pc, warned>>

(* lines 93-97 *)
PassSet ==
    /\ pc = "loop" /\ LoopCond
    /\ ~IsBlankOrComment(CurLine)
    /\ IsSetLine(CurLine)
    /\ chunk' = PassThrough(chunk, CurLine)
    /\ i' = i + 1
    /\ UNCHANGED <<lines, start_index, target, initial_offset, local_sum, pc, warned>>

(* lines 120-123: extract_cycle_count returned None *)
SkipUncosted ==
    /\ pc = "loop" /\ LoopCond
    /\ ~IsBlankOrComment(CurLine) /\ ~IsSetLine(CurLine)
    /\ cycle_option(CurLine).none
    /\ i' = i + 1
    /\ UNCHANGED <<lines, start_index, target, initial_offset, local_sum, chunk, pc, warned>>

(* a slip: the index is advanced past the overflowing instruction *)
OverflowSplitConsumes ==
    /\ pc = "loop" /\ LoopCond
    /\ ~IsBlankOrComment(CurLine) /\ ~IsSetLine(CurLine)
    /\ ~cycle_option(CurLine).none
    /\ Overflows(cycle_option(CurLine))
    /\ LET diff == target - Delta
           num_nop == NumNop(diff)
       IN /\ chunk' = chunk \o NopLines(local_sum, num_nop)
          /\ local_sum' = local_sum + NopCycles * num_nop
    /\ i' = i + 1
    /\ pc' = "pad"
    /\ UNCHANGED <<lines, start_index, target, initial_offset, warned>>

(* a slip: the fillers are pushed but local_sum is not advanced *)
OverflowSplitNoAdvance ==
    /\ pc = "loop" /\ LoopCond
    /\ ~IsBlankOrComment(CurLine) /\ ~IsSetLine(CurLine)
    /\ ~cycle_option(CurLine).none
    /\ Overflows(cycle_option(CurLine))
    /\ LET diff == target - Delta
           num_nop == NumNop(diff)
       IN chunk' = chunk \o NopLines(local_sum, num_nop)
    /\ pc' = "pad"
    /\ UNCHANGED <<lines, start_index, target, initial_offset, local_sum, i, warned>>

(* lines 107-116: the instruction would overrun the target *)
OverflowSplit ==
    /\ pc = "loop" /\ LoopCond
    /\ ~IsBlankOrComment(CurLine) /\ ~IsSetLine(CurLine)
    /\ ~cycle_option(CurLine).none
    /\ Overflows(cycle_option(CurLine))
    /\ LET diff == target - Delta
           num_nop == NumNop(diff)
       IN /\ chunk' = chunk \o NopLines(local_sum, num_nop)
          /\ local_sum' = local_sum + NopCycles * num_nop
    /\ pc' = "pad"
    /\ UNCHANGED <<lines, start_index, target, initial_offset, i, warned>>

(* lines 117-119 and 124 *)
Consume ==
    /\ pc = "loop" /\ LoopCond
    /\ ~IsBlankOrComment(CurLine) /\ ~IsSetLine(CurLine)
    /\ ~cycle_option(CurLine).none
    /\ ~Overflows(cycle_option(CurLine))
    /\ LET cycles == cycle_option(CurLine)
       IN /\ chunk' = Append(chunk, format_accumulated_instruction(
                          CurLine, cycles.lookup, cycles.cycles, local_sum))
          /\ local_sum' = local_sum + base_cycles(cycles)
    /\ i' = i + 1
    /\ UNCHANGED <<lines, start_index, target, initial_offset, pc, warned>>

(* line 84: the while condition is false *)
LoopExit ==
    /\ pc = "loop" /\ ~LoopCond
    /\ pc' = "pad"
    /\ UNCHANGED <<lines, start_index, target, initial_offset, local_sum, chunk, i, warned>>

(* lines 127-137 *)
PadShortfall ==
    /\ pc = "pad"
    /\ IF Delta < target
       THEN LET diff == target - Delta
                num_nop == NumNop(diff)
            IN /\ chunk' = chunk \o NopLines(local_sum, num_nop)
               /\ local_sum' = local_sum + NopCycles * num_nop
       ELSE UNCHANGED <<chunk, local_sum>>
    /\ pc' = "check"
    /\ UNCHANGED <<lines, start_index, target, initial_offset, i, warned>>

(* lines 139-145: the mismatch warning, then return (chunk, i, local_sum) *)
CheckAndReturn ==
    /\ pc = "check"
    /\ warned' = (Delta # target)
    /\ pc' = "done"
    /\ UNCHANGED <<lines, start_index, target, initial_offset, local_sum, chunk, i>>

----------------------------------------------------------------------------
(* template.rs: parse_template.  A template line carries, besides the      *)
(* fields of a stream line:                                                *)
(*   nop      the count captured by NOP_RE, -1 when no match               *)
(*   dcb      trimmed.contains("dcb.w")                                    *)
(*   paren    PAREN_NUM_RE.is_match(trimmed)                               *)
(*   cmt      <<text>> for the text captured by COMMENT_RE, <<>> when the  *)
(*            line has no ';'                                              *)

TLine(text, blank, comment, set, nop, dcb, paren, ovr, cmt, tab, regs) ==
    [tag |-> "line", text |-> text, blank |-> blank, comment |-> comment,
     set |-> set, equ |-> FALSE, nop |-> nop, dcb |-> dcb, paren |-> paren,
     ovr |-> ovr, cmt |-> cmt, tab |-> tab, regs |-> regs]

TemplateLines ==
    { TLine("",                    TRUE,  FALSE, FALSE, -1, FALSE, FALSE, -1, <<>>, <<>>, 0),
      TLine("; note",              FALSE, TRUE,  FALSE, -1, FALSE, FALSE, -1, <<"note">>, <<>>, 0),
      TLine("; wait (8)",          FALSE, TRUE,  FALSE, -1, FALSE, TRUE,   8, <<"wait (8)">>, <<>>, 0),
      TLine("x set 1",             FALSE, FALSE, TRUE,  -1, FALSE, FALSE, -1, <<>>, <<>>, 0),
      TLine("dcb.w 2,$4e71",       FALSE, FALSE, FALSE,  2, TRUE,  FALSE, -1, <<>>, <<>>, 0),
      TLine("dcb.w 3,$4e71",       FALSE, FALSE, FALSE,  3, TRUE,  FALSE, -1, <<>>, <<>>, 0),
      TLine("move.w #1,d1",        FALSE, FALSE, FALSE, -1, FALSE, FALSE, -1, <<>>, <<8>>, 0),
      TLine("move.w #9,d2 ; work", FALSE, FALSE, FALSE, -1, FALSE, FALSE, -1, <<"work">>, <<8>>, 0),
      TLine("add.w d0,d1 ; (6)",   FALSE, FALSE, FALSE, -1, FALSE, TRUE,   6, <<"(6)">>, <<4>>, 0),
      TLine("movem.l d0-d1,-(sp)", FALSE, FALSE, FALSE, -1, FALSE, FALSE, -1, <<>>, <<4, 2>>, 2),
      TLine("customop d0-d3",      FALSE, FALSE, FALSE, -1, FALSE, FALSE, -1, <<>>, <<>>, 4) }

(* String::with_capacity(32), and a label in general: a comment's text, or *)
(* the text "Section" followed by a number                                 *)
EmptyLabel == [text |-> "", n |-> 0]

is_empty(label) == label.text = ""

(* a slip: the sections are numbered from 0 *)
DefaultLabelZeroBased(secs) == [text |-> "Section", n |-> Len(secs)]

(* lines 105, 139: format!("Section {}", sections.len() + 1) *)
DefaultLabel(secs) == [text |-> "Section", n |-> Len(secs) + 1]

(* lines 101-105, 135-139: COMMENT_RE.captures(trimmed) ... unwrap_or_else *)
LabelFor(line, secs) ==
    IF line.cmt # <<>> THEN [text |-> line.cmt[1], n |-> 0]
    ELSE DefaultLabel(secs)

(* lines 100-106, 135-140: if current_label.is_empty() { current_label = ... } *)
AssignLabel(label, line, secs) ==
    IF is_empty(label) THEN LabelFor(line, secs) ELSE label

(* a slip: the directive's count is taken as the budget *)
FillerCyclesUnscaled(count) == count

(* line 112: let cycles = count * 4 *)
FillerCycles(count) == count * 4

(* lines 15-19: struct TemplateSection *)
TemplateSection(code, cycles, label) ==
    [injection_code |-> code, nop_cycles |-> cycles, label |-> label]

(* lines 127-132: the skip predicate of parse_template *)
template_skip_predicate(line) ==
    line.comment \/ line.dcb \/ line.equ \/ line.paren

(* lines 142-148: format_accumulated_instruction with the register count *)
format_accumulated_with_regs(line, lookup, cycles, reg_count, offset) ==
    [tag |-> "annot", text |-> line.text, cycles |-> cycles, lookup |-> lookup,
     reg_count |-> reg_count, offset |-> offset]

(* line 134: extract_cycle_count(trimmed, skip_predicate) *)
template_cycle_count(line) ==
    extract_cycle_count(line, template_skip_predicate(line))

(* lines 149-153: cycles[1] is read when reg_count > 1 *)
IndexOutOfBounds(cc) == cc.reg_count > 1 /\ Len(cc.cycles) < 2

(* the per-register component left out *)
CalculatedCyclesBaseOnly(cc) == cc.cycles[1]

(* lines 149-153: let caclucated_cycles = ... *)
caclucated_cycles(cc) ==
    IF cc.reg_count > 1 THEN cc.cycles[1] + (cc.cycles[2] * cc.reg_count)
    ELSE cc.cycles[1]

TCur == tlines[tidx + 1]

TemplateInit ==
    /\ tlines \in SeqsUpTo(TemplateLines, MaxTemplateLines)
    /\ tidx = 0
    /\ sections = <<>>
    /\ current_code = <<>>
    /\ current_label = EmptyLabel
    /\ cycle_offset = 0
    /\ tpc = "scan"

(* lines 94-96: an empty line *)
TSkipEmpty ==
    /\ tpc = "scan" /\ tidx < Len(tlines)
    /\ TCur.blank
    /\ tidx' = tidx + 1
    /\ UNCHANGED <<tlines, sections, current_code, current_label,
                   cycle_offset, tpc>>

(* lines 99-108: a line holding " set " *)
TSetLine ==
    /\ tpc = "scan" /\ tidx < Len(tlines)
    /\ ~TCur.blank /\ TCur.set
    /\ current_label' = AssignLabel(current_label, TCur, sections)
    /\ current_code' = Append(current_code,
                              [code |-> [tag |-> "plain", text |-> TCur.text],
                               cost |-> 0])
    /\ tidx' = tidx + 1
    /\ UNCHANGED <<tlines, sections, cycle_offset, tpc>>

(* lines 110-124: a filler directive *)
TFiller ==
    /\ tpc = "scan" /\ tidx < Len(tlines)
    /\ ~TCur.blank /\ ~TCur.set /\ TCur.nop >= 0
    /\ IF current_code # <<>>
       THEN /\ sections' = Append(sections,
                               TemplateSection(current_code,
                                               FillerCycles(TCur.nop),
                                               current_label))
            /\ current_code' = <<>>
            /\ current_label' = EmptyLabel
       ELSE UNCHANGED <<sections, current_code, current_label>>
    /\ tidx' = tidx + 1
    /\ UNCHANGED <<tlines, cycle_offset, tpc>>

(* lines 134-155: a line whose cost resolves *)
TInjection ==
    /\ tpc = "scan" /\ tidx < Len(tlines)
    /\ ~TCur.blank /\ ~TCur.set /\ TCur.nop < 0
    /\ LET cc == template_cycle_count(TCur)
       IN /\ ~cc.none
          /\ ~IndexOutOfBounds(cc)
          /\ current_label' = AssignLabel(current_label, TCur, sections)
          /\ current_code' = Append(current_code,
                 [code |-> format_accumulated_with_regs(TCur, cc.lookup,
                               cc.cycles, cc.reg_count, cycle_offset),
                  cost |-> caclucated_cycles(cc)])
          /\ cycle_offset' = cycle_offset + caclucated_cycles(cc)
    /\ tidx' = tidx + 1
    /\ UNCHANGED <<tlines, sections, tpc>>

(* lines 149-151: cycles[1] of a one-component cost: the thread panics *)
TPanic ==
    /\ tpc = "scan" /\ tidx < Len(tlines)
    /\ ~TCur.blank /\ ~TCur.set /\ TCur.nop < 0
    /\ LET cc == template_cycle_count(TCur)
       IN ~cc.none /\ IndexOutOfBounds(cc)
    /\ tpc' = "panic"
    /\ UNCHANGED <<tlines, tidx, sections, current_code, current_label,
                   cycle_offset>>

(* lines 156-158: extract_cycle_count returned None *)
TSkipLine ==
    /\ tpc = "scan" /\ tidx < Len(tlines)
    /\ ~TCur.blank /\ ~TCur.set /\ TCur.nop < 0
    /\ template_cycle_count(TCur).none
    /\ tidx' = tidx + 1
    /\ UNCHANGED <<tlines, sections, current_code, current_label,
                   cycle_offset, tpc>>

(* lines 161-169: the trailing section, then Ok(sections) *)
TReturn ==
    /\ tpc = "scan" /\ tidx = Len(tlines)
    /\ sections' = IF current_code # <<>>
                   THEN Append(sections,
                               TemplateSection(current_code, 0, current_label))
                   ELSE sections
    /\ tpc' = "done"
    /\ UNCHANGED <<tlines, tidx, current_code, current_label, cycle_offset>>

----------------------------------------------------------------------------
(* cycles.rs: normalize_line_ext and count_registers.  A string is the     *)
(* sequence of its characters; positions are 1-based.  For every regex     *)
(* there is an operator giving the length of the match that starts at a    *)
(* position (0 when none starts there) and one giving its replacement.     *)

Whitespace == {" ", "\t"}

LowerSeq == <<"a", "b", "c", "d", "e", "f", "g", "h", "i", "j", "k", "l", "m",
              "n", "o", "p", "q", "r", "s", "t", "u", "v", "w", "x", "y", "z">>

UpperSeq == <<"A", "B", "C", "D", "E", "F", "G", "H", "I", "J", "K", "L", "M",
              "N", "O", "P", "Q", "R", "S", "T", "U", "V", "W", "X", "Y", "Z">>

DigitSeq == <<"0", "1", "2", "3", "4", "5", "6", "7", "8", "9">>

LowerLetters == {LowerSeq[k] : k \in DOMAIN LowerSeq}

UpperLetters == {UpperSeq[k] : k \in DOMAIN UpperSeq}

DigitChars == {DigitSeq[k] : k \in DOMAIN DigitSeq}

(* [0-7] *)
RegisterDigits == {DigitSeq[k] : k \in 1..8}

(* [a-zA-Z_] and \w *)
IdentStart == LowerLetters \cup UpperLetters \cup {"_"}

WordChars == IdentStart \cup DigitChars

(* the character at position p, "" outside the string *)
At(s, p) == IF p >= 1 /\ p <= Len(s) THEN s[p] ELSE ""

HasAt(s, p, lit) ==
    /\ p >= 1 /\ p + Len(lit) - 1 <= Len(s)
    /\ \A k \in 1..Len(lit) : s[p + k - 1] = lit[k]

(* the length of the longest run of characters of C, or of characters not  *)
(* of C, that starts at p                                                  *)
RECURSIVE RunIn(_, _, _)
RunIn(s, p, C) ==
    IF p <= Len(s) /\ s[p] \in C THEN 1 + RunIn(s, p + 1, C) ELSE 0

RECURSIVE RunNotIn(_, _, _)
RunNotIn(s, p, C) ==
    IF p <= Len(s) /\ s[p] \notin C THEN 1 + RunNotIn(s, p + 1, C) ELSE 0

(* \b at the gap before position p *)
WordBoundary(s, p) == (At(s, p - 1) \in WordChars) # (At(s, p) \in WordChars)

(* str::split on one character *)
RECURSIVE split(_, _)
split(s, c) ==
    LET n == RunNotIn(s, 1, {c})
    IN IF n = Len(s) THEN <<s>>
       ELSE <<SubSeq(s, 1, n)>> \o split(SubSeq(s, n + 2, Len(s)), c)

(* str::trim *)
RECURSIVE trim_end(_)
trim_end(s) ==
    IF s # <<>> /\ s[Len(s)] \in Whitespace
    THEN trim_end(SubSeq(s, 1, Len(s) - 1)) ELSE s

trim(s) == trim_end(SubSeq(s, RunIn(s, 1, Whitespace) + 1, Len(s)))

(* str::to_lowercase *)
LowerChar(c) ==
    IF c \in UpperLetters
    THEN LowerSeq[CHOOSE k \in DOMAIN UpperSeq : UpperSeq[k] = c]
    ELSE c

str_to_lowercase(s) == [k \in DOMAIN s |-> LowerChar(s[k])]

(* char::to_digit(10) *)
to_digit(c) == (CHOOSE k \in DOMAIN DigitSeq : DigitSeq[k] = c) - 1

(* lines 214-217: the line up to its first ';' *)
line_without_comment(line) == SubSeq(line, 1, RunNotIn(line, 1, {";"}))

(* line 164, REG_LABEL_CHECK: ^\s | \.*[a-zA-Z_][a-zA-Z0-9_]*:\s*          *)
(* the second alternative is not anchored                                  *)
LabelMatchLen(s, p) ==
    LET dots == RunIn(s, p, {"."})
        name == IF At(s, p + dots) \in IdentStart
                THEN RunIn(s, p + dots, WordChars) ELSE 0
    IN IF name > 0 /\ At(s, p + dots + name) = ":"
       THEN dots + name + 1 + RunIn(s, p + dots + name + 1, Whitespace)
       ELSE 0

REG_LABEL_CHECK(s, p) ==
    IF p = 1 /\ At(s, 1) \in Whitespace THEN 1 ELSE LabelMatchLen(s, p)

(* lines 220-222: Regex::replace, the first match only *)
line_without_label(s) ==
    LET starts == {p \in 1..Len(s) : REG_LABEL_CHECK(s, p) > 0}
    IN IF starts = {} THEN s
       ELSE LET p == CHOOSE q \in starts : \A o \in starts : q <= o
            IN SubSeq(s, 1, p - 1) \o SubSeq(s, p + REG_LABEL_CHECK(s, p), Len(s))

(* lines 225-227: splitn(2, char::is_whitespace) *)
first_token_of(trimmed) == SubSeq(trimmed, 1, RunNotIn(trimmed, 1, Whitespace))

operand_part_of(trimmed) ==
    SubSeq(trimmed, RunNotIn(trimmed, 1, Whitespace) + 2, Len(trimmed))

(* line 106, REG_INSTRUCTION: ^(lea|moveq)$ *)
REG_INSTRUCTION(token) ==
    token \in {<<"l", "e", "a">>, <<"m", "o", "v", "e", "q">>}

(* line 156, REG_BCC: ^(b[A-Za-z]{2})(\.s)?  (not anchored at the end) *)
REG_BCC(token) ==
    /\ At(token, 1) = "b"
    /\ At(token, 2) \in LowerLetters \cup UpperLetters
    /\ At(token, 3) \in LowerLetters \cup UpperLetters

(* lines 229-243: the instruction token; the regex has no third group, so  *)
(* caps.get(3) is None and trailing is ""                                  *)
suffixed_token(token) ==
    IF REG_INSTRUCTION(token) THEN token \o <<".", "l">>
    ELSE IF REG_BCC(token)
    THEN IF HasAt(token, 4, <<".", "s">>)
         THEN SubSeq(token, 1, 3) \o <<".", "b">>
         ELSE SubSeq(token, 1, 3) \o <<".", "w">>
    ELSE IF \A k \in DOMAIN token : token[k] # "."
    THEN token \o <<".", "w">>
    ELSE token

(* (a[0-7]|sp) at position p: its length, 0 when absent *)
AddrRegLen(s, p) ==
    IF (At(s, p) = "a" /\ At(s, p + 1) \in RegisterDigits)
       \/ HasAt(s, p, <<"s", "p">>)
    THEN 2 ELSE 0

(* line 98, REG_DISPLACEMENT: ([^\s,()]+)\((a[0-7]|sp)\) *)
REG_DISPLACEMENT(s, p) ==
    LET run == RunNotIn(s, p, Whitespace \cup {",", "(", ")"})
    IN IF /\ run > 0
          /\ At(s, p + run) = "("
          /\ AddrRegLen(s, p + run + 1) > 0
          /\ At(s, p + run + 3) = ")"
       THEN run + 4 ELSE 0

(* lines 249-255 *)
displacement_replacement(s, p, n) ==
    IF SubSeq(s, p, p + n - 5) = <<"-">>
    THEN <<"-", "(">> \o SubSeq(s, p + n - 3, p + n - 2) \o <<")">>
    ELSE <<"d", "(">> \o SubSeq(s, p + n - 3, p + n - 2) \o <<")">>

(* line 113, REG_IMMEDIATE: (#[^,\s]+) *)
REG_IMMEDIATE(s, p) ==
    LET run == RunNotIn(s, p + 1, Whitespace \cup {","})
    IN IF At(s, p) = "#" /\ run > 0 THEN 1 + run ELSE 0

(* line 258 *)
immediate_replacement(s, p, n) == <<"#", "x", "x", "x">>

(* [da][0-7] at position p *)
IsRegister(s, p) == At(s, p) \in {"d", "a"} /\ At(s, p + 1) \in RegisterDigits

(* the registers chained by '/' or '-' from position p on *)
RECURSIVE ChainLen(_, _)
ChainLen(s, p) ==
    IF ~IsRegister(s, p) THEN 0
    ELSE IF At(s, p + 2) \in {"/", "-"} /\ IsRegister(s, p + 3)
    THEN 3 + ChainLen(s, p + 3)
    ELSE 2

(* line 185, REG_REGLIST: two or more chained registers *)
REG_REGLIST(s, p) == IF ChainLen(s, p) >= 5 THEN ChainLen(s, p) ELSE 0

(* lines 263-266 *)
reglist_replacement(s, p, n) ==
    <<"%", "%", "R", "E", "G", "L", "I", "S", "T", "%", "%">>

(* line 121, REG_DATA: \bd[0-7]\b *)
REG_DATA(s, p) ==
    IF /\ At(s, p) = "d" /\ At(s, p + 1) \in RegisterDigits
       /\ WordBoundary(s, p) /\ WordBoundary(s, p + 2)
    THEN 2 ELSE 0

(* line 270 *)
data_replacement(s, p, n) == <<"d", "n">>

(* line 129, REG_ADDR: \b(a[0-7]|sp)\b *)
REG_ADDR(s, p) ==
    IF /\ AddrRegLen(s, p) > 0
       /\ WordBoundary(s, p) /\ WordBoundary(s, p + 2)
    THEN 2 ELSE 0

(* line 271 *)
addr_replacement(s, p, n) == <<"a", "n">>

(* lines 138-140, REG_ABS_ADDRESS: the groups of the match starting at p   *)
AbsBefore(s, p) ==
    IF p = 1 /\ At(s, 1) \in IdentStart THEN 0
    ELSE IF At(s, p) \in {" ", "\t", ",", "(", "["} THEN 1
    ELSE -1

AbsToken(s, p) ==
    IF AbsBefore(s, p) >= 0 /\ At(s, p + AbsBefore(s, p)) \in IdentStart
    THEN RunIn(s, p + AbsBefore(s, p), WordChars) ELSE 0

AbsSuffix(s, p) ==
    LET e == p + AbsBefore(s, p) + AbsToken(s, p)
    IN IF /\ At(s, e) = "." /\ At(s, e + 1) \in {"l", "w"}
          /\ WordBoundary(s, e + 2)
       THEN 2 ELSE 0

REG_ABS_ADDRESS(s, p) ==
    IF AbsToken(s, p) > 0
    THEN AbsBefore(s, p) + AbsToken(s, p) + AbsSuffix(s, p) ELSE 0

(* lines 274-291 *)
abs_replacement(s, p, n) ==
    LET b == AbsBefore(s, p)
        token == SubSeq(s, p + b, p + b + AbsToken(s, p) - 1)
        before == SubSeq(s, p, p + b - 1)
    IN IF token \in {<<"a", "n">>, <<"d", "n">>, <<"d">>}
       THEN SubSeq(s, p, p + n - 1)
       ELSE IF AbsSuffix(s, p) > 0 /\ At(s, p + n - 1) = "w"
       THEN before \o <<"x", "x", "x", ".", "w">>
       ELSE before \o <<"x", "x", "x", ".", "l">>

(* line 147, REG_SPACES: [ \t]+ *)
REG_SPACES(s, p) == RunIn(s, p, {" ", "\t"})

(* line 294 *)
spaces_replacement(s, p, n) == <<" ">>

(* line 172, REG_DOLLAR_CHECK: \$(\w+)(\.w)?([,;\n\t])? *)
DollarWord(s, p) == IF At(s, p) = "$" THEN RunIn(s, p + 1, WordChars) ELSE 0

DollarSuffix(s, p) ==
    IF HasAt(s, p + 1 + DollarWord(s, p), <<".", "w">>) THEN 2 ELSE 0

DollarPunct(s, p) ==
    IF At(s, p + 1 + DollarWord(s, p) + DollarSuffix(s, p))
           \in {",", ";", "\n", "\t"}
    THEN 1 ELSE 0

REG_DOLLAR_CHECK(s, p) ==
    IF DollarWord(s, p) > 0
    THEN 1 + DollarWord(s, p) + DollarSuffix(s, p) + DollarPunct(s, p) ELSE 0

(* lines 299-306 *)
dollar_replacement(s, p, n) ==
    LET punctuation == SubSeq(s, p + n - DollarPunct(s, p), p + n - 1)
    IN IF DollarSuffix(s, p) > 0
       THEN <<"x", "x", "x", ".", "w">> \o punctuation
       ELSE <<"x", "x", "x", ".", "l">> \o punctuation

(* line 312: str::replace("%%REGLIST%%", "reglist") *)
PlaceholderLen(s, p) ==
    IF HasAt(s, p, <<"%", "%", "R", "E", "G", "L", "I", "S", "T", "%", "%">>)
    THEN 11 ELSE 0

placeholder_replacement(s, p, n) == <<"r", "e", "g", "l", "i", "s", "t">>

(* the regexes replace_all is called with, by name *)
MatchLen(re, s, p) ==
    CASE re = "REG_DISPLACEMENT" -> REG_DISPLACEMENT(s, p)
      [] re = "REG_IMMEDIATE" -> REG_IMMEDIATE(s, p)
      [] re = "REG_REGLIST" -> REG_REGLIST(s, p)
      [] re = "REG_DATA" -> REG_DATA(s, p)
      [] re = "REG_ADDR" -> REG_ADDR(s, p)
      [] re = "REG_ABS_ADDRESS" -> REG_ABS_ADDRESS(s, p)
      [] re = "REG_SPACES" -> REG_SPACES(s, p)
      [] re = "REG_DOLLAR_CHECK" -> REG_DOLLAR_CHECK(s, p)
      [] re = "%%REGLIST%%" -> PlaceholderLen(s, p)

Replacement(re, s, p, n) ==
    CASE re = "REG_DISPLACEMENT" -> displacement_replacement(s, p, n)
      [] re = "REG_IMMEDIATE" -> immediate_replacement(s, p, n)
      [] re = "REG_REGLIST" -> reglist_replacement(s, p, n)
      [] re = "REG_DATA" -> data_replacement(s, p, n)
      [] re = "REG_ADDR" -> addr_replacement(s, p, n)
      [] re = "REG_ABS_ADDRESS" -> abs_replacement(s, p, n)
      [] re = "REG_SPACES" -> spaces_replacement(s, p, n)
      [] re = "REG_DOLLAR_CHECK" -> dollar_replacement(s, p, n)
      [] re = "%%REGLIST%%" -> placeholder_replacement(s, p, n)

(* Regex::replace_all: the non-overlapping matches from the left;          *)
(* replace_from is the result for the text from position p on              *)
RECURSIVE replace_from(_, _, _)
replace_from(s, re, p) ==
    IF p > Len(s) THEN <<>>
    ELSE IF MatchLen(re, s, p) > 0
    THEN Replacement(re, s, p, MatchLen(re, s, p))
             \o replace_from(s, re, p + MatchLen(re, s, p))
    ELSE <<s[p]>> \o replace_from(s, re, p + 1)

replace_all(s, re) == replace_from(s, re, 1)

(* the matches replace_all visits, in order *)
RECURSIVE find_from(_, _, _)
find_from(s, re, p) ==
    IF p > Len(s) THEN <<>>
    ELSE IF MatchLen(re, s, p) > 0
    THEN <<SubSeq(s, p, p + MatchLen(re, s, p) - 1)>>
             \o find_from(s, re, p + MatchLen(re, s, p))
    ELSE find_from(s, re, p + 1)

find_iter(s, re) == find_from(s, re, 1)

(* a usize as two limbs, hi * 2^16 + lo, so that values near 2^32 can be   *)
(* written                                                                 *)
Limb == 65536

Usize(n) == [hi |-> n \div Limb, lo |-> n % Limb]

usize_add(a, b) ==
    [hi |-> a.hi + b.hi + ((a.lo + b.lo) \div Limb), lo |-> (a.lo + b.lo) % Limb]

(* line 200: (end_digit - start_digit + 1) as usize, in u32 without        *)
(* overflow checks: the value modulo 2^32                                  *)
wrapping_span(start_digit, end_digit) ==
    IF end_digit - start_digit + 1 >= 0
    THEN Usize(end_digit - start_digit + 1)
    ELSE [hi |-> Limb - 1, lo |-> Limb + (end_digit - start_digit + 1)]

(* lines 193-207: one '/'-separated part.  With overflow checks the        *)
(* subtraction end_digit - start_digit panics when it is negative.         *)
count_part(part, build) ==
    IF \E k \in DOMAIN part : part[k] = "-"
    THEN LET range_parts == split(part, "-")
         IN IF Len(range_parts) = 2
            THEN LET start_digit == to_digit(range_parts[1][Len(range_parts[1])])
                     end_digit == to_digit(range_parts[2][Len(range_parts[2])])
                 IN IF end_digit < start_digit /\ build = "debug"
                    THEN [panic |-> TRUE, count |-> Usize(0)]
                    ELSE [panic |-> FALSE,
                          count |-> wrapping_span(start_digit, end_digit)]
            ELSE [panic |-> FALSE, count |-> Usize(1)]
    ELSE [panic |-> FALSE, count |-> Usize(1)]

(* the loop of lines 190-210 over a sequence of parts, and of lines        *)
(* 263-265 over a sequence of register lists                               *)
RECURSIVE count_parts(_, _)
count_parts(parts, build) ==
    IF parts = <<>> THEN [panic |-> FALSE, count |-> Usize(0)]
    ELSE LET head == count_part(parts[1], build)
             rest == count_parts(Tail(parts), build)
         IN [panic |-> head.panic \/ rest.panic,
             count |-> usize_add(head.count, rest.count)]

(* lines 189-211 *)
count_registers(reg_list, build) == count_parts(split(reg_list, "/"), build)

RECURSIVE count_lists(_, _)
count_lists(lists, build) ==
    IF lists = <<>> THEN [panic |-> FALSE, count |-> Usize(0)]
    ELSE LET head == count_registers(lists[1], build)
             rest == count_lists(Tail(lists), build)
         IN [panic |-> head.panic \/ rest.panic,
             count |-> usize_add(head.count, rest.count)]

(* lines 246-312: the operand part *)
normalize_operands(operand_part) ==
    LET a == replace_all(operand_part, "REG_DISPLACEMENT")
        b == replace_all(a, "REG_IMMEDIATE")
        c == replace_all(b, "REG_REGLIST")
        d == replace_all(replace_all(c, "REG_DATA"), "REG_ADDR")
        e == replace_all(d, "REG_ABS_ADDRESS")
        f == trim(replace_all(e, "REG_SPACES"))
        g == IF \E k \in DOMAIN f : f[k] = "$"
             THEN replace_all(f, "REG_DOLLAR_CHECK")
             ELSE f
    IN replace_all(g, "%%REGLIST%%")

(* lines 261-267: the register lists REG_REGLIST finds in the operands *)
register_lists(operand_part) ==
    find_iter(replace_all(replace_all(operand_part, "REG_DISPLACEMENT"),
                          "REG_IMMEDIATE"),
              "REG_REGLIST")

(* lines 213-320 *)
normalize_line_ext(line, build) ==
    LET trimmed == str_to_lowercase(trim(line_without_label(line_without_comment(line))))
        first_token == suffixed_token(first_token_of(trimmed))
        operand_part == operand_part_of(trimmed)
        operands == normalize_operands(operand_part)
        counted == count_lists(register_lists(operand_part), build)
    IN [panic |-> counted.panic,
        key |-> IF counted.panic THEN <<>>
                ELSE IF operands = <<>> THEN first_token
                ELSE first_token \o <<" ">> \o operands,
        reg_count |-> counted.count]

(* The lines normalize_line_ext is called with.  A bare instruction is     *)
(* lower-case text with one space between mnemonic and operands; lists     *)
(* names the register lists among its operands.                            *)
BaseInstruction(text, lists) == [text |-> text, lists |-> lists]

BaseInstructions ==
    {
      (* moveq #16,d0 *)
      BaseInstruction(<<"m", "o", "v", "e", "q", " ", "#", "1", "6", ",", "d", "0">>,
          <<>>),
      (* move.l d0,a1 *)
      BaseInstruction(<<"m", "o", "v", "e", ".", "l", " ", "d", "0", ",", "a", "1">>,
          <<>>),
      (* add d0,d1 *)
      BaseInstruction(<<"a", "d", "d", " ", "d", "0", ",", "d", "1">>,
          <<>>),
      (* lea $ffff8240.w,a0 *)
      BaseInstruction(<<"l", "e", "a", " ", "$", "f", "f", "f", "f", "8", "2", "4", "0", ".", "w", ",", "a", "0">>,
          <<>>),
      (* lea 100(sp),a1 *)
      BaseInstruction(<<"l", "e", "a", " ", "1", "0", "0", "(", "s", "p", ")", ",", "a", "1">>,
          <<>>),
      (* movem.l d0-d3,-(sp) *)
      BaseInstruction(<<"m", "o", "v", "e", "m", ".", "l", " ", "d", "0", "-", "d", "3", ",", "-", "(", "s", "p", ")">>,
          <<<<"d", "0", "-", "d", "3">>>>),
      (* movem.l (sp)+,d0/d2/d5 *)
      BaseInstruction(<<"m", "o", "v", "e", "m", ".", "l", " ", "(", "s", "p", ")", "+", ",", "d", "0", "/", "d", "2", "/", "d", "5">>,
          <<<<"d", "0", "/", "d", "2", "/", "d", "5">>>>),
      (* movem.l d0-d3/a5,-(sp) *)
      BaseInstruction(<<"m", "o", "v", "e", "m", ".", "l", " ", "d", "0", "-", "d", "3", "/", "a", "5", ",", "-", "(", "s", "p", ")">>,
          <<<<"d", "0", "-", "d", "3", "/", "a", "5">>>>),
      (* movem.l d0-d3-d5,-(sp) *)
      BaseInstruction(<<"m", "o", "v", "e", "m", ".", "l", " ", "d", "0", "-", "d", "3", "-", "d", "5", ",", "-", "(", "s", "p", ")">>,
          <<<<"d", "0", "-", "d", "3", "-", "d", "5">>>>),
      (* movem.l d3-d0,-(sp) *)
      BaseInstruction(<<"m", "o", "v", "e", "m", ".", "l", " ", "d", "3", "-", "d", "0", ",", "-", "(", "s", "p", ")">>,
          <<<<"d", "3", "-", "d", "0">>>>),
      (* movem.l d0-d1,a0-a2 *)
      BaseInstruction(<<"m", "o", "v", "e", "m", ".", "l", " ", "d", "0", "-", "d", "1", ",", "a", "0", "-", "a", "2">>,
          <<<<"d", "0", "-", "d", "1">>, <<"a", "0", "-", "a", "2">>>>),
      (* bne.s loop *)
      BaseInstruction(<<"b", "n", "e", ".", "s", " ", "l", "o", "o", "p">>,
          <<>>),
      (* bne loop *)
      BaseInstruction(<<"b", "n", "e", " ", "l", "o", "o", "p">>,
          <<>>),
      (* btst #1,d0 *)
      BaseInstruction(<<"b", "t", "s", "t", " ", "#", "1", ",", "d", "0">>,
          <<>>),
      (* nop *)
      BaseInstruction(<<"n", "o", "p">>,
          <<>>) }

(* the label prefixes "lp:" and ".lp:", and an inline comment *)
Labels == {<<>>, <<"l", "p", ":">>, <<".", "l", "p", ":">>}

Comments == {<<>>, <<";", " ", "c">>}

Spaces(k) == [j \in 1..k |-> " "]

UpperChar(c) ==
    IF c \in LowerLetters
    THEN UpperSeq[CHOOSE k \in DOMAIN LowerSeq : LowerSeq[k] = c]
    ELSE c

(* k more spaces between mnemonic and operands *)
WidenGap(text, k) ==
    LET g == RunNotIn(text, 1, {" "}) + 1
    IN IF g > Len(text) THEN text
       ELSE SubSeq(text, 1, g) \o Spaces(k) \o SubSeq(text, g + 1, Len(text))

(* the instruction as it may stand in a source file: indented, labelled    *)
(* (the label followed by a tab), spaced out, in upper case, followed by   *)
(* blanks and a comment                                                    *)
Decorate(text, lead, label, extra, upper, trail, comment) ==
    LET body == WidenGap(text, extra)
    IN Spaces(lead)
       \o (IF label # <<>> THEN label \o <<"\t">> ELSE <<>>)
       \o (IF upper THEN [k \in DOMAIN body |-> UpperChar(body[k])] ELSE body)
       \o Spaces(trail)
       \o comment

SourceLines(text) ==
    {Decorate(text, lead, label, extra, upper, trail, comment) :
        lead \in 0..MaxPad, label \in Labels, extra \in 0..MaxPad,
        upper \in BOOLEAN, trail \in 0..MaxPad, comment \in Comments}

NoResult == [panic |-> FALSE, key |-> <<>>, reg_count |-> Usize(0)]

NormInit ==
    /\ nbase \in BaseInstructions
    /\ nline \in SourceLines(nbase.text)
    /\ npass = 0
    /\ nbuild \in {"debug", "release"}
    /\ nout = NoResult
    /\ npc = "call"

(* lookup_cycles line 331: let (normalized, reg_count) =                   *)
(* normalize_line_ext(line); a panic ends the program                      *)
Normalize ==
    /\ npc = "call"
    /\ nout' = normalize_line_ext(nline, nbuild)
    /\ npc' = IF nout'.panic THEN "panic" ELSE "ret"
    /\ UNCHANGED <<nbase, nline, npass, nbuild>>

(* lines 440-449: a line that is itself a key the normalizer returned *)
Resubmit ==
    /\ npc = "ret" /\ npass < MaxPasses
    /\ nbase' = BaseInstruction(nout.key, <<>>)
    /\ nline' = nout.key
    /\ npass' = npass + 1
    /\ npc' = "call"
    /\ UNCHANGED <<nbuild, nout>>

----------------------------------------------------------------------------
(* main.rs: the window loop of main, with the accumulate_chunk and         *)
(* lookup_cycles that main.rs defines and calls.  The stream lines are     *)
(* Line records as above; number_re finding "(n)" in a line is ovr >= 0.   *)

DriverLines ==
    {l \in AccLines :
        l.text \in {"   ", "x set 1", "n equ 2", "move.w a1,a2 ; (2)",
                    "add #2,d3 ; (6)", "customop d1"}}

(* an entry of injection_code: (code, cycles) *)
Injection(code, cycles) == [code |-> code, cycles |-> cycles]

(* the sections parse_template returns hold at least one injection line;   *)
(* the filler budget is four times a directive's count, or 0               *)
DriverSections ==
    { TemplateSection(<<Injection("move.w #1,d1 ; (8)", 8)>>, 8, "(8)"),
      TemplateSection(<<Injection("add.w d0,d1 ; (6)", 6)>>, 4, "(6)"),
      TemplateSection(<<Injection("jsr sync ; (300)", 300),
                        Injection("x set 1 ; (0)", 0)>>, 0, "(300)") }

(* lines 71-81: the first cycle count of the table, or 0 and a warning *)
main_lookup_cycles(line) ==
    IF line.tab # <<>>
    THEN [cycles |-> line.tab[1], warn |-> <<>>]
    ELSE [cycles |-> 0,
          warn |-> <<[tag |-> "no cycle count", text |-> line.text]>>]

(* lines 120-124 and 140-144: num_nop filler lines of 4 cycles *)
main_nop_lines(sum, num_nop) ==
    [k \in 1..num_nop |-> [tag |-> "nop", offset |-> sum + 4 * (k - 1)]]

(* lines 106-116: the cycle count of a line that is not blank or comment,  *)
(* none for a set or equ line without a number in parentheses              *)
main_cycles(line) ==
    IF line.ovr >= 0 THEN [none |-> FALSE, cycles |-> line.ovr, warn |-> <<>>]
    ELSE IF ~line.comment /\ ~line.set /\ ~line.equ
    THEN [none |-> FALSE, cycles |-> main_lookup_cycles(line).cycles,
          warn |-> main_lookup_cycles(line).warn]
    ELSE [none |-> TRUE, cycles |-> 0, warn |-> <<>>]

(* lines 98-136: the while loop; st holds chunk, i, local_sum and the      *)
(* warnings printed                                                        *)
RECURSIVE main_accumulate_loop(_, _, _, _)
main_accumulate_loop(ls, tgt, initial, st) ==
    IF ~(st.i < Len(ls) /\ st.local_sum - initial < tgt) THEN st
    ELSE
      LET line == ls[st.i + 1]
          c == main_cycles(line)
          diff == tgt - (st.local_sum - initial)
          num_nop == diff \div 4
      IN IF line.blank \/ line.comment
         THEN main_accumulate_loop(ls, tgt, initial,
                  [st EXCEPT !.chunk = Append(@, line), !.i = @ + 1])
         ELSE IF c.none
         THEN main_accumulate_loop(ls, tgt, initial, [st EXCEPT !.i = @ + 1])
         ELSE IF (st.local_sum - initial) + c.cycles > tgt
         THEN [st EXCEPT !.chunk = @ \o main_nop_lines(st.local_sum, num_nop),
                         !.local_sum = @ + 4 * num_nop,
                         !.diag = @ \o c.warn]
         ELSE main_accumulate_loop(ls, tgt, initial,
                  [st EXCEPT
                     !.chunk = Append(@,
                         IF c.cycles > 0
                         THEN [tag |-> "annot", text |-> line.text,
                               cycles |-> c.cycles, offset |-> st.local_sum]
                         ELSE line),
                     !.local_sum = @ + c.cycles,
                     !.i = @ + 1,
                     !.diag = @ \o c.warn])

(* lines 88-153: accumulate_chunk returns (chunk, i, local_sum) *)
main_accumulate_chunk(ls, start, tgt, initial) ==
    LET st == main_accumulate_loop(ls, tgt, initial,
                  [chunk |-> <<>>, i |-> start, local_sum |-> initial,
                   diag |-> <<>>])
        diff == tgt - (st.local_sum - initial)
        num_nop == IF st.local_sum - initial < tgt THEN diff \div 4 ELSE 0
        sum == st.local_sum + 4 * num_nop
    IN [chunk |-> st.chunk \o main_nop_lines(st.local_sum, num_nop),
        i |-> st.i,
        local_sum |-> sum,
        diag |-> st.diag \o
                 (IF sum - initial # tgt
                  THEN <<[tag |-> "mismatch", accumulated |-> sum - initial,
                          target |-> tgt, start_index |-> start]>>
                  ELSE <<>>)]

(* a slip: the stream is resumed one line after the returned index *)
ResumeAfter(new_idx) == new_idx + 1

(* line 335: current_index = new_idx *)
resume_at(new_idx) == new_idx

(* lines 310-319: the injection code of a section, the first line with the *)
(* running offset; w holds scanline_offset, scanline_cycles,               *)
(* current_index, the lines pushed and the warnings printed                *)
RECURSIVE push_injection(_, _, _)
push_injection(code, k, w) ==
    IF k > Len(code) THEN w
    ELSE push_injection(code, k + 1,
             [w EXCEPT
                !.out = Append(@, [tag |-> "inj", text |-> code[k].code,
                                   cycles |-> code[k].cycles,
                                   offset |-> IF k = 1
                                              THEN <<w.scanline_offset>>
                                              ELSE <<>>]),
                !.scanline_offset = @ + code[k].cycles,
                !.scanline_cycles = @ + code[k].cycles])

(* lines 309-338: the body of the loop over the sections *)
run_section(section, w) ==
    LET a == push_injection(section.injection_code, 1, w)
        b == [a EXCEPT !.out = Append(@, [tag |-> "header",
                                          label |-> section.label])]
        r == main_accumulate_chunk(flat_lines, b.current_index,
                                   section.nop_cycles, b.scanline_offset)
        c == IF section.nop_cycles > 0 /\ b.current_index < Len(flat_lines)
             THEN [b EXCEPT !.scanline_offset = r.local_sum,
                            !.scanline_cycles = @ + section.nop_cycles,
                            !.current_index = resume_at(r.i),
                            !.out = @ \o r.chunk,
                            !.diag = @ \o r.diag]
             ELSE b
    IN [c EXCEPT !.out = Append(@, [tag |-> "calc",
                                    offset |-> c.scanline_offset])]

(* line 308: for section in &template_sections *)
RECURSIVE run_sections(_, _, _)
run_sections(secs, k, w) ==
    IF k > Len(secs) THEN w
    ELSE run_sections(secs, k + 1, run_section(secs[k], w))

(* lines 342-353: the padding directive or the overflow warning, then the  *)
(* scanline's total                                                        *)
pad_scanline(w) ==
    LET remaining == SCANLINE_CYCLES - w.scanline_cycles
        nop_count == remaining \div 4
        p == IF w.scanline_cycles < SCANLINE_CYCLES
             THEN [w EXCEPT
                     !.out = IF nop_count > 0
                             THEN Append(@, [tag |-> "dcb", count |-> nop_count,
                                             remaining |-> remaining])
                             ELSE @,
                     !.scanline_cycles = SCANLINE_CYCLES]
             ELSE IF w.scanline_cycles > SCANLINE_CYCLES
             THEN [w EXCEPT
                     !.diag = Append(@, [tag |-> "overflow",
                                 by |-> w.scanline_cycles - SCANLINE_CYCLES])]
             ELSE w
    IN [p EXCEPT !.out = Append(@, [tag |-> "total",
                                    cycles |-> p.scanline_cycles])]

(* lines 299-301; the stream is free of rept and endr lines, the template  *)
(* is any list of sections parse_template can return                       *)
DriverInit ==
    /\ flat_lines \in SeqsUpTo(DriverLines, MaxFlat)
    /\ template_sections \in SeqsUpTo(DriverSections, MaxSections)
    /\ current_index = 0
    /\ final_output = <<>>
    /\ line_count = 0
    /\ diagnostics = <<>>
    /\ dpc = "loop"

(* lines 303-355: one iteration of the window loop *)
Window ==
    /\ dpc = "loop" /\ current_index < Len(flat_lines)
    /\ line_count < MaxWindows
    /\ LET w == pad_scanline(run_sections(template_sections, 1,
                    [scanline_offset |-> 0, scanline_cycles |-> 0,
                     current_index |-> current_index, out |-> <<>>,
                     diag |-> <<>>]))
       IN /\ final_output' = final_output \o w.out
          /\ diagnostics' = diagnostics \o w.diag
          /\ current_index' = w.current_index
    /\ line_count' = line_count + 1
    /\ UNCHANGED <<flat_lines, template_sections, dpc>>

(* line 303: the loop condition is false *)
WindowLoopExit ==
    /\ dpc = "loop" /\ ~(current_index < Len(flat_lines))
    /\ dpc' = "done"
    /\ UNCHANGED <<flat_lines, template_sections, current_index,
                   final_output, line_count, diagnostics>>

----------------------------------------------------------------------------
(* block.rs: process_block.  A line is the sequence of its                 *)
(* whitespace-separated tokens; main.rs trims every line before the call.  *)

BlockLines ==
    { <<"a">>, <<"b">>, <<"rept", "2">>, <<"REPT", "3">>, <<"rept", "0">>,
      <<"rept", "x">>, <<"rept">>, <<"endr">> }

(* str::to_lowercase, token by token *)
LowerToken(t) ==
    CASE t = "REPT" -> "rept"
      [] t = "ENDR" -> "endr"
      [] OTHER -> t

to_lowercase(line) == [k \in DOMAIN line |-> LowerToken(line[k])]

(* lower.starts_with("rept"), lower.starts_with("endr") *)
starts_with(lower, prefix) == Len(lower) >= 1 /\ lower[1] = prefix

(* lower.split_whitespace().collect() *)
split_whitespace(lower) == lower

(* parts[1].parse::<usize>(): Ok(n) for a string of decimal digits *)
parse_usize(t) ==
    CASE t = "0" -> [ok |-> TRUE, val |-> 0]
      [] t = "1" -> [ok |-> TRUE, val |-> 1]
      [] t = "2" -> [ok |-> TRUE, val |-> 2]
      [] t = "3" -> [ok |-> TRUE, val |-> 3]
      [] OTHER -> [ok |-> FALSE, val |-> 0]

RECURSIVE Times(_, _)
Times(block, count) ==
    IF count = 0 THEN <<>> ELSE block \o Times(block, count - 1)

(* a slip: the count is ignored and the block is emitted once *)
ReplicateOnce(result, block, count) == result \o block

(* a slip: an inclusive range, 0..=count *)
ReplicateOffByOne(result, block, count) == result \o Times(block, count + 1)

(* lines 72-74: for _ in 0..count { result.extend(block) } *)
Replicate(result, block, count) == result \o Times(block, count)

(* a slip: the opener with the bad count is skipped like a valid one *)
KeepOpenerDropped(result, line) == result

(* line 78: result.push(line.clone()) for an opener whose count fails to parse *)
KeepOpener(result, line) == Append(result, line)

(* a slip: lines collected when the input ends inside a block are discarded *)
AtEndOfInputDiscards(result, index) == [result |-> <<>>, index |-> index]

(* line 89: the loop ran off the end of the input *)
AtEndOfInput(result, index) == [result |-> result, index |-> index]

(* lines 64-88: the while loop of one recursion level *)
RECURSIVE process_loop(_, _, _)
process_loop(ls, index, result) ==
    IF ~(index < Len(ls)) THEN AtEndOfInput(result, index)
    ELSE
      LET line == ls[index + 1]
          lower == to_lowercase(line)
          parts == split_whitespace(lower)
      IN IF starts_with(lower, "rept")
         THEN IF Len(parts) >= 2
              THEN IF parse_usize(parts[2]).ok
                   THEN LET inner == process_loop(ls, index + 1, <<>>)
                        IN process_loop(ls, inner.index,
                               Replicate(result, inner.result,
                                         parse_usize(parts[2]).val))
                   ELSE process_loop(ls, index + 1, KeepOpener(result, line))
              ELSE process_loop(ls, index + 1, result)
         ELSE IF starts_with(lower, "endr")
              THEN [result |-> result, index |-> index + 1]
              ELSE process_loop(ls, index + 1, Append(result, line))

(* lines 61-63 *)
process_block(ls, start) == process_loop(ls, start, <<>>)

BlockInit ==
    /\ blines \in SeqsUpTo(BlockLines, MaxBlockLines)
    /\ bresult = <<>>
    /\ bnext = 0
    /\ bpc = "call"

(* main.rs line 297: let (flat_lines, _) = process_block(&raw_lines, 0) *)
Expand ==
    /\ bpc = "call"
    /\ LET r == process_block(blines, 0)
       IN bresult' = r.result /\ bnext' = r.index
    /\ bpc' = "ret"
    /\ UNCHANGED blines

AccIdle ==
    /\ lines = <<>> /\ start_index = 0 /\ target = 0 /\ initial_offset = 0
    /\ local_sum = 0 /\ chunk = <<>> /\ i = 0 /\ pc = "idle" /\ warned = FALSE

TemplateIdle ==
    /\ tlines = <<>> /\ tidx = 0 /\ sections = <<>> /\ current_code = <<>>
    /\ current_label = EmptyLabel /\ cycle_offset = 0 /\ tpc = "idle"

NormIdle ==
    /\ nbase = BaseInstruction(<<>>, <<>>) /\ nline = <<>> /\ npass = 0
    /\ nbuild = "release" /\ nout = NoResult /\ npc = "idle"

DriverIdle ==
    /\ flat_lines = <<>> /\ template_sections = <<>> /\ current_index = 0
    /\ final_output = <<>> /\ line_count = 0 /\ diagnostics = <<>>
    /\ dpc = "idle"

InitBlock == BlockInit /\ AccIdle /\ TemplateIdle /\ NormIdle /\ DriverIdle

NextBlock == Expand /\ UNCHANGED <<accVars, tmplVars, normVars, driverVars>>

SpecBlock == InitBlock /\ [][NextBlock]_vars

BlockIdle ==
    /\ blines = <<>> /\ bresult = <<>> /\ bnext = 0 /\ bpc = "idle"

Init == AccInit /\ BlockIdle /\ TemplateIdle /\ NormIdle /\ DriverIdle

Next ==
    \/ PassBlankOrComment /\ UNCHANGED <<blockVars, tmplVars, normVars, driverVars>>
    \/ PassSet /\ UNCHANGED <<blockVars, tmplVars, normVars, driverVars>>
    \/ SkipUncosted /\ UNCHANGED <<blockVars, tmplVars, normVars, driverVars>>
    \/ OverflowSplit /\ UNCHANGED <<blockVars, tmplVars, normVars, driverVars>>
    \/ Consume /\ UNCHANGED <<blockVars, tmplVars, normVars, driverVars>>
    \/ LoopExit /\ UNCHANGED <<blockVars, tmplVars, normVars, driverVars>>
    \/ PadShortfall /\ UNCHANGED <<blockVars, tmplVars, normVars, driverVars>>
    \/ CheckAndReturn /\ UNCHANGED <<blockVars, tmplVars, normVars, driverVars>>

Spec == Init /\ [][Next]_vars

InitTemplate ==
    TemplateInit /\ AccIdle /\ BlockIdle /\ NormIdle /\ DriverIdle

NextTemplate ==
    \/ TSkipEmpty /\ UNCHANGED <<accVars, blockVars, normVars, driverVars>>
    \/ TSetLine /\ UNCHANGED <<accVars, blockVars, normVars, driverVars>>
    \/ TFiller /\ UNCHANGED <<accVars, blockVars, normVars, driverVars>>
    \/ TInjection /\ UNCHANGED <<accVars, blockVars, normVars, driverVars>>
    \/ TPanic /\ UNCHANGED <<accVars, blockVars, normVars, driverVars>>
    \/ TSkipLine /\ UNCHANGED <<accVars, blockVars, normVars, driverVars>>
    \/ TReturn /\ UNCHANGED <<accVars, blockVars, normVars, driverVars>>

SpecTemplate == InitTemplate /\ [][NextTemplate]_vars

InitNorm == NormInit /\ AccIdle /\ BlockIdle /\ TemplateIdle /\ DriverIdle

NextNorm ==
    \/ Normalize /\ UNCHANGED <<accVars, blockVars, tmplVars, driverVars>>
    \/ Resubmit /\ UNCHANGED <<accVars, blockVars, tmplVars, driverVars>>

SpecNorm == InitNorm /\ [][NextNorm]_vars

InitDriver == DriverInit /\ AccIdle /\ BlockIdle /\ TemplateIdle /\ NormIdle

NextDriver ==
    \/ Window /\ UNCHANGED <<accVars, blockVars, tmplVars, normVars>>
    \/ WindowLoopExit /\ UNCHANGED <<accVars, blockVars, tmplVars, normVars>>

SpecDriver == InitDriver /\ [][NextDriver]_vars

----------------------------------------------------------------------------
(* The accumulator's claims.  The vocabulary below reads the input lines   *)
(* and the returned chunk only, so that it does not depend on how the      *)
(* operations above compute.                                               *)

(* a real instruction: neither blank, comment nor set line, and costed *)
RealInstruction(line) ==
    /\ ~line.blank /\ ~line.comment /\ ~line.set
    /\ (line.ovr >= 0 \/ ~line.equ)

(* the first component of the line's resolved cost *)
FirstCost(line) ==
    IF line.ovr >= 0 THEN line.ovr
    ELSE IF line.tab = <<>> THEN 0 ELSE line.tab[1]

(* the effective cost of spec 4.2 *)
EffectiveCost(line) ==
    IF line.ovr >= 0 THEN line.ovr
    ELSE IF line.tab = <<>> THEN 0
    ELSE IF line.regs > 1 THEN line.tab[1] + line.tab[2] * line.regs
    ELSE line.tab[1]

RECURSIVE ConsumedSum(_)
ConsumedSum(c) ==
    IF c = <<>> THEN 0
    ELSE (IF Head(c).tag = "annot" THEN Head(c).cycles[1] ELSE 0)
         + ConsumedSum(Tail(c))

NopCount(c) == Cardinality({k \in 1..Len(c) : c[k].tag = "nop"})

AllNops(c) == \A k \in 1..Len(c) : c[k].tag = "nop"

NopsAreTail(c) ==
    \A k \in 1..Len(c) : c[k].tag = "nop" =>
        \A m \in k..Len(c) : c[m].tag = "nop"

IsExtension(c, d) == Len(d) >= Len(c) /\ SubSeq(d, 1, Len(c)) = c

Suffix(c, d) == SubSeq(d, Len(c) + 1, Len(d))

AtOverflow ==
    /\ pc = "loop" /\ LoopCond
    /\ RealInstruction(CurLine)
    /\ Delta + FirstCost(CurLine) > target

(* C1: when the next real instruction's cost would overrun the target, it  *)
(* is not consumed and not emitted; floor(residual / 4) filler lines are    *)
(* appended, scanning stops, and the index stays on that instruction until  *)
(* the call returns.                                                        *)
C1_OverflowSplit ==
    [][ /\ AtOverflow =>
            /\ i' = i
            /\ pc' # "loop"
            /\ IsExtension(chunk, chunk')
            /\ AllNops(Suffix(chunk, chunk'))
            /\ Len(chunk') - Len(chunk) = (target - Delta) \div 4
            /\ local_sum' = local_sum + 4 * ((target - Delta) \div 4)
        /\ pc \in {"pad", "check"} =>
            /\ i' = i
            /\ pc' # "loop"
            /\ IsExtension(chunk, chunk')
            /\ AllNops(Suffix(chunk, chunk')) ]_vars

C1_Witness ==
    /\ pc = "done"
    /\ start_index = 0 /\ target = 6 /\ initial_offset = 0
    /\ Len(lines) = 2 /\ FirstCost(lines[1]) = 2 /\ FirstCost(lines[2]) = 6
    /\ RealInstruction(lines[1]) /\ RealInstruction(lines[2])
    /\ i = 1
    /\ Len(chunk) = 2 /\ chunk[1].tag = "annot" /\ chunk[2].tag = "nop"
    /\ local_sum - initial_offset = 6

(* C2 as stated: on every return final_offset - initial_offset = target.   *)
C2_Original == pc = "done" => local_sum - initial_offset = target

(* C2 (amended): on return final_offset - initial_offset is target less     *)
(* the part of the residual no 4-cycle filler can close, so it equals       *)
(* target exactly when the residual is a multiple of 4 (input exhausted or  *)
(* not); the diagnostic is printed exactly when they differ, and the call   *)
(* returns the actual offset.                                               *)
C2_Postcondition ==
    pc = "done" =>
        LET residual == target - ConsumedSum(chunk)
        IN /\ residual >= 0
           /\ local_sum - initial_offset = target - (residual % 4)
           /\ warned = (local_sum - initial_offset # target)

C2_Witness ==
    /\ pc = "done"
    /\ i = Len(lines)
    /\ ConsumedSum(chunk) > 0
    /\ NopCount(chunk) >= 1
    /\ warned
    /\ local_sum - initial_offset < target

(* C3: the fillers of one call number floor((target - consumed) / 4), are   *)
(* the tail of the chunk, and when the consumed costs sum to the target     *)
(* there is none and the index is just past the last consumed instruction.  *)
C3_FillerCount ==
    pc = "done" =>
        /\ NopCount(chunk) = (target - ConsumedSum(chunk)) \div 4
        /\ NopsAreTail(chunk)
        /\ (ConsumedSum(chunk) = target /\ target > 0) =>
               /\ NopCount(chunk) = 0
               /\ i >= 1
               /\ chunk[Len(chunk)].tag = "annot"
               /\ chunk[Len(chunk)].text = lines[i].text

C3_Witness ==
    /\ pc = "done"
    /\ target = 8
    /\ ConsumedSum(chunk) = target
    /\ NopCount(chunk) = 0
    /\ i = 2 /\ Len(lines) = 3

(* C4: a blank, full-comment or set line met before the target is reached   *)
(* is appended unchanged, advances the index by one and leaves the offset   *)
(* unchanged.                                                               *)
C4_PassThrough ==
    [][ (/\ pc = "loop" /\ LoopCond
         /\ (CurLine.blank \/ CurLine.comment \/ CurLine.set)) =>
            /\ chunk' = Append(chunk, CurLine)
            /\ i' = i + 1
            /\ local_sum' = local_sum
            /\ pc' = "loop" ]_vars

C4_Witness ==
    /\ pc = "done"
    /\ Len(chunk) >= 3
    /\ \E a, b, c \in 1..Len(chunk) :
          /\ chunk[a].tag = "line" /\ chunk[a].blank
          /\ chunk[b].tag = "line" /\ chunk[b].comment
          /\ chunk[c].tag = "line" /\ chunk[c].set
    /\ local_sum = initial_offset + NopCycles * NopCount(chunk)

(* C5 as stated: a consumed instruction advances the offset by its          *)
(* effective cost (base + per-register * register_count for a register      *)
(* list of more than one register), and the overflow test uses that cost.   *)
C5_EffectiveCost ==
    [][ (/\ pc = "loop" /\ LoopCond
         /\ RealInstruction(CurLine)) =>
            IF Delta + EffectiveCost(CurLine) > target
            THEN i' = i /\ pc' # "loop"
            ELSE i' = i + 1 /\ local_sum' = local_sum + EffectiveCost(CurLine) ]_vars

----------------------------------------------------------------------------
(* The repeat expander's claims.  The reference expansion below pairs each *)
(* opener with its close line by counting depth, and does not use the      *)
(* recursion of process_block.                                             *)

IsClose(l) == LowerToken(l[1]) = "endr"

IsReptLine(l) == LowerToken(l[1]) = "rept"

IsPlain(l) == ~IsClose(l) /\ ~IsReptLine(l)

Digits == {"0", "1", "2", "3"}

CountValue(t) == CASE t = "0" -> 0 [] t = "1" -> 1 [] t = "2" -> 2 [] t = "3" -> 3

(* an opener with a numeric count *)
IsValidOpener(l) == IsReptLine(l) /\ Len(l) >= 2 /\ l[2] \in Digits

(* an opener whose count token is present but not a number *)
IsMalformedOpener(l) == IsReptLine(l) /\ Len(l) >= 2 /\ l[2] \notin Digits

(* an opener whose count is 0 or absent *)
IsZeroOrAbsentOpener(l) ==
    IsReptLine(l) /\ (Len(l) < 2 \/ (Len(l) >= 2 /\ l[2] = "0"))

RECURSIVE Depth(_, _)
Depth(ls, k) ==
    IF k = 0 THEN 0
    ELSE Depth(ls, k - 1)
         + (IF IsValidOpener(ls[k]) THEN 1 ELSE IF IsClose(ls[k]) THEN -1 ELSE 0)

(* only plain lines, numeric openers and close lines; no close without opener *)
WellBracketed(ls) ==
    /\ \A k \in 1..Len(ls) : IsPlain(ls[k]) \/ IsValidOpener(ls[k]) \/ IsClose(ls[k])
    /\ \A k \in 0..Len(ls) : Depth(ls, k) >= 0

ProperlyNested(ls) ==
    /\ WellBracketed(ls)
    /\ Depth(ls, Len(ls)) = 0
    /\ \A k \in 1..Len(ls) : IsValidOpener(ls[k]) => CountValue(ls[k][2]) > 0

(* the close line matching the opener at position p *)
MatchClose(ls, p) ==
    CHOOSE q \in (p + 1)..Len(ls) :
        /\ Depth(ls, q) = Depth(ls, p - 1)
        /\ \A r \in (p + 1)..(q - 1) : Depth(ls, r) > Depth(ls, p - 1)

RECURSIVE RefTimes(_, _)
RefTimes(s, n) == IF n <= 0 THEN <<>> ELSE s \o RefTimes(s, n - 1)

RECURSIVE RefExpand(_)
RefExpand(ls) ==
    IF ls = <<>> THEN <<>>
    ELSE IF IsPlain(Head(ls)) THEN <<Head(ls)>> \o RefExpand(Tail(ls))
    ELSE LET q == MatchClose(ls, 1)
         IN RefTimes(RefExpand(SubSeq(ls, 2, q - 1)), CountValue(ls[1][2]))
            \o RefExpand(SubSeq(ls, q + 1, Len(ls)))

(* the openers that enclose position p *)
Enclosing(ls, p) ==
    {q \in 1..(p - 1) : IsValidOpener(ls[q]) /\ MatchClose(ls, q) > p}

RECURSIVE Product(_, _)
Product(ls, S) ==
    IF S = {} THEN 1
    ELSE LET q == CHOOSE x \in S : TRUE
         IN CountValue(ls[q][2]) * Product(ls, S \ {q})

RECURSIVE FlatCountUpTo(_, _)
FlatCountUpTo(ls, k) ==
    IF k = 0 THEN 0
    ELSE FlatCountUpTo(ls, k - 1)
         + (IF IsPlain(ls[k]) THEN Product(ls, Enclosing(ls, k)) ELSE 0)

(* each plain line counts once per iteration of the blocks around it *)
FlatCount(ls) == FlatCountUpTo(ls, Len(ls))

Closes(n) == [k \in 1..n |-> <<"endr">>]

(* the position of the first close line, 0 when there is none *)
FirstClose(ls) ==
    IF \E k \in 1..Len(ls) : IsClose(ls[k])
    THEN CHOOSE k \in 1..Len(ls) :
             IsClose(ls[k]) /\ \A m \in 1..(k - 1) : ~IsClose(ls[m])
    ELSE 0

(* C6: for a properly nested input with positive counts, every plain line  *)
(* is emitted once per iteration of the blocks around it (N*k lines for a   *)
(* repeat-N of k lines, N*M*k when nested), in order, with no opener or     *)
(* close line emitted, and lines outside any block once each.               *)
C6_FlatCount ==
    (bpc = "ret" /\ ProperlyNested(blines)) =>
        /\ bresult = RefExpand(blines)
        /\ Len(bresult) = FlatCount(blines)
        /\ bnext = Len(blines)

C6_Witness ==
    /\ bpc = "ret"
    /\ blines = << <<"rept", "2">>, <<"REPT", "3">>, <<"a">>, <<"endr">>, <<"endr">> >>
    /\ bresult = << <<"a">>, <<"a">>, <<"a">>, <<"a">>, <<"a">>, <<"a">> >>

(* an input of plain lines, close lines and openers satisfying P, with such *)
(* an opener before the first close line                                    *)
FallbackShape(ls, P(_)) ==
    /\ \A k \in 1..Len(ls) : IsPlain(ls[k]) \/ IsClose(ls[k]) \/ P(ls[k])
    /\ FirstClose(ls) > 0
    /\ \E k \in 1..(FirstClose(ls) - 1) : P(ls[k])

(* C7: an opener whose count token is not a number is emitted verbatim once,*)
(* the lines after it once each, and the close line is consumed and not     *)
(* emitted.                                                                 *)
C7_MalformedCount ==
    (bpc = "ret" /\ FallbackShape(blines, IsMalformedOpener)) =>
        /\ bresult = SubSeq(blines, 1, FirstClose(blines) - 1)
        /\ bnext = FirstClose(blines)

C7_Witness ==
    /\ bpc = "ret"
    /\ blines = << <<"a">>, <<"rept", "x">>, <<"b">>, <<"endr">> >>
    /\ bresult = << <<"a">>, <<"rept", "x">>, <<"b">> >>

(* C8 as stated: an opener whose count is 0 or absent is not expanded: the *)
(* opener is emitted verbatim and the body once.                           *)
C8_ZeroOrAbsentCount ==
    (bpc = "ret" /\ FallbackShape(blines, IsZeroOrAbsentOpener)) =>
        bresult = SubSeq(blines, 1, FirstClose(blines) - 1)

(* plain lines, one numeric opener, plain lines, and no close line *)
OneOpenBlock(ls) ==
    /\ \E p \in 1..Len(ls) :
          /\ IsValidOpener(ls[p])
          /\ \A k \in 1..Len(ls) : k # p => IsPlain(ls[k])

OpenerAt(ls) == CHOOSE p \in 1..Len(ls) : IsValidOpener(ls[p])

(* C9 as stated: the body of a block left open at the end of the input is   *)
(* emitted exactly once.                                                    *)
C9_Original ==
    (bpc = "ret" /\ OneOpenBlock(blines)) =>
        bresult = SubSeq(blines, 1, OpenerAt(blines) - 1)
                  \o SubSeq(blines, OpenerAt(blines) + 1, Len(blines))

(* C9 (amended): the body of a block with count N left open at the end of   *)
(* the input is emitted N times, and the call returns normally at the end   *)
(* of the input.                                                            *)
C9_OpenBodyRepeated ==
    (bpc = "ret" /\ OneOpenBlock(blines)) =>
        LET p == OpenerAt(blines)
        IN /\ bresult = SubSeq(blines, 1, p - 1)
                        \o RefTimes(SubSeq(blines, p + 1, Len(blines)),
                                    CountValue(blines[p][2]))
           /\ bnext = Len(blines)

C9_Witness ==
    /\ bpc = "ret"
    /\ blines = << <<"a">>, <<"REPT", "3">>, <<"b">>, <<"a">> >>
    /\ Len(bresult) = 7

(* C10: blocks never closed are expanded as if their close lines stood at   *)
(* the end of the input.                                                    *)
C10_ClosedAtEnd ==
    (/\ bpc = "ret"
     /\ WellBracketed(blines)
     /\ Depth(blines, Len(blines)) >= 1) =>
        /\ bresult = RefExpand(blines \o Closes(Depth(blines, Len(blines))))
        /\ bnext = Len(blines)

C10_Witness ==
    /\ bpc = "ret"
    /\ blines = << <<"a">>, <<"rept", "2">>, <<"b">> >>
    /\ bresult = << <<"a">>, <<"b">>, <<"b">> >>

----------------------------------------------------------------------------
(* The template parser's claims.  The vocabulary reads the template's      *)
(* lines and the returned sections only.                                   *)

LineOf(text) == CHOOSE l \in TemplateLines : l.text = text

IsFiller(l) == ~l.blank /\ l.nop >= 0

(* an instruction line: not blank, comment, set line or filler directive,  *)
(* and its cost resolves (an override, or no exclusion applies)            *)
TemplateInstruction(l) ==
    /\ ~l.blank /\ ~l.comment /\ ~l.set /\ l.nop < 0
    /\ (l.ovr >= 0 \/ ~(l.dcb \/ l.equ \/ l.paren))

FillersUpTo(t, k) == Cardinality({j \in 1..k : IsFiller(t[j])})

NumFillers(t) == FillersUpTo(t, Len(t))

(* the position of the n-th filler directive of t *)
NthFiller(t, n) ==
    CHOOSE k \in 1..Len(t) : IsFiller(t[k]) /\ FillersUpTo(t, k) = n

(* the instruction lines between the (n-1)-th and the n-th filler *)
GroupSize(t, n) ==
    Cardinality({j \in 1..NthFiller(t, n) :
                    /\ TemplateInstruction(t[j])
                    /\ FillersUpTo(t, j) = n - 1})

(* s groups, each one or more instruction lines and then a filler *)
Grouped(t) ==
    /\ Len(t) >= 1
    /\ IsFiller(t[Len(t)])
    /\ TemplateInstruction(t[1])
    /\ \A k \in 1..Len(t) : IsFiller(t[k]) \/ TemplateInstruction(t[k])
    /\ \A k \in 1..(Len(t) - 1) : ~(IsFiller(t[k]) /\ IsFiller(t[k + 1]))

HasComment(entry) == LineOf(entry.code.text).cmt # <<>>

Commented(sec) ==
    {k \in 1..Len(sec.injection_code) : HasComment(sec.injection_code[k])}

FirstComment(sec) ==
    LET k == CHOOSE m \in Commented(sec) : \A o \in Commented(sec) : m <= o
    IN LineOf(sec.injection_code[k].code.text).cmt[1]

SectionN(n) == [text |-> "Section", n |-> n]

AllEntries ==
    {current_code[k] : k \in 1..Len(current_code)} \cup
    UNION {{sections[n].injection_code[k] :
               k \in 1..Len(sections[n].injection_code)} :
           n \in 1..Len(sections)}

(* C11: a template of s groups, each one or more instruction lines         *)
(* followed by a filler directive, yields s sections in order; the i-th    *)
(* has one entry per instruction line of the i-th group and a budget of    *)
(* four times the i-th directive's count.                                  *)
C11_SectionBoundaries ==
    (tpc = "done" /\ Grouped(tlines)) =>
        /\ Len(sections) = NumFillers(tlines)
        /\ \A n \in 1..Len(sections) :
              /\ sections[n].nop_cycles = 4 * tlines[NthFiller(tlines, n)].nop
              /\ Len(sections[n].injection_code) = GroupSize(tlines, n)

C11_Witness ==
    /\ tpc = "done" /\ Grouped(tlines)
    /\ Len(sections) = 2
    /\ sections[1].nop_cycles # sections[2].nop_cycles

(* C12: every filler directive closes a section: the n-th directive's      *)
(* budget, four times its count, is the budget of the n-th returned        *)
(* section, also when no injection line precedes the directive.            *)
C12_EveryFillerCloses ==
    tpc = "done" =>
        \A n \in 1..NumFillers(tlines) :
            /\ Len(sections) >= n
            /\ sections[n].nop_cycles = 4 * tlines[NthFiller(tlines, n)].nop

(* C13: a returned section none of whose lines has an inline comment is    *)
(* labelled "Section n", n its 1-based position in the returned list.      *)
C13_DefaultLabel ==
    tpc = "done" =>
        \A n \in 1..Len(sections) :
            Commented(sections[n]) = {} => sections[n].label = SectionN(n)

C13_Witness ==
    /\ tpc = "done" /\ Len(sections) = 2
    /\ Commented(sections[1]) # {}
    /\ Commented(sections[2]) = {}
    /\ sections[2].label = SectionN(2)

(* C14: a section's label is the first inline comment found on any of its  *)
(* lines, and the default "Section n" only when no line has a comment.     *)
C14_LabelFromAnyLine ==
    tpc = "done" =>
        \A n \in 1..Len(sections) :
            sections[n].label =
                IF Commented(sections[n]) # {}
                THEN [text |-> FirstComment(sections[n]), n |-> 0]
                ELSE SectionN(n)

(* C15: a full-comment line never becomes injection code, and a template   *)
(* of only blank and comment lines yields no section.                      *)
C15_CommentsFiltered ==
    /\ \A e \in AllEntries : ~LineOf(e.code.text).comment
    /\ (tpc = "done" /\ \A k \in 1..Len(tlines) :
                            tlines[k].blank \/ tlines[k].comment)
           => sections = <<>>

(* C16: an instruction whose key is missing from the table never aborts    *)
(* parse_template; its entry costs 0, also when it has a register list.    *)
C16_MissingKeyNeverAborts ==
    /\ tpc # "panic"
    /\ \A e \in AllEntries :
           (e.code.tag = "annot" /\ e.code.lookup = "unknown key")
               => e.cost = 0

EntryCost(entry) ==
    IF entry.code.tag # "annot" THEN 0
    ELSE IF entry.code.reg_count > 1
    THEN entry.code.cycles[1] + entry.code.cycles[2] * entry.code.reg_count
    ELSE entry.code.cycles[1]

(* the costs of the first k entries of an injection list *)
RECURSIVE CostOfFirst(_, _)
CostOfFirst(code, k) ==
    IF k = 0 THEN 0 ELSE code[k].cost + CostOfFirst(code, k - 1)

(* the costs of all entries of the first n sections *)
RECURSIVE CostOfSections(_, _)
CostOfSections(secs, n) ==
    IF n = 0 THEN 0
    ELSE CostOfFirst(secs[n].injection_code, Len(secs[n].injection_code))
         + CostOfSections(secs, n - 1)

(* every annotated entry of code carries the offset base plus the costs   *)
(* of the entries before it in code, and every entry its effective cost   *)
OffsetsFrom(code, base) ==
    \A k \in 1..Len(code) :
        /\ code[k].cost = EntryCost(code[k])
        /\ code[k].code.tag = "annot" =>
               code[k].code.offset = base + CostOfFirst(code, k - 1)

(* C27 as stated: the offset annotated on an injection instruction is the *)
(* sum of the effective costs of the instructions before it in the same   *)
(* section, 0 for a section's first instruction, and each entry's stored  *)
(* cost is its effective cost.                                            *)
C27_Original ==
    /\ \A n \in 1..Len(sections) : OffsetsFrom(sections[n].injection_code, 0)
    /\ OffsetsFrom(current_code, 0)

(* C27 amended: the offset annotated on an injection instruction is the   *)
(* sum of the effective costs of all injection instructions before it in  *)
(* the template, those of earlier sections included; each entry's stored  *)
(* cost is its effective cost.                                            *)
C27_RunningOffset ==
    /\ \A n \in 1..Len(sections) :
           OffsetsFrom(sections[n].injection_code,
                       CostOfSections(sections, n - 1))
    /\ tpc # "done" =>
           OffsetsFrom(current_code, CostOfSections(sections, Len(sections)))

C27_Witness ==
    /\ Len(sections) >= 2
    /\ \E k \in 1..Len(sections[2].injection_code) :
           LET e == sections[2].injection_code[k]
           IN /\ e.code.tag = "annot"
              /\ e.code.reg_count > 1
              /\ e.code.offset > 0
              /\ e.code.offset = CostOfSections(sections, 1)

----------------------------------------------------------------------------
(* The normalizer's claims *)

Returned == npc \in {"ret", "panic"}

(* one '/'-separated segment: a single register counts 1, a range lo-hi    *)
(* counts hi - lo + 1, a malformed range counts 1                          *)
ClaimedSegment(seg) ==
    LET members == split(seg, "-")
        lo == to_digit(members[1][Len(members[1])])
        hi == to_digit(members[2][Len(members[2])])
    IN IF Len(members) = 2 /\ hi >= lo THEN hi - lo + 1 ELSE 1

RECURSIVE ClaimedSum(_)
ClaimedSum(segs) ==
    IF segs = <<>> THEN 0 ELSE ClaimedSegment(segs[1]) + ClaimedSum(Tail(segs))

RECURSIVE ClaimedCount(_)
ClaimedCount(lists) ==
    IF lists = <<>> THEN 0
    ELSE ClaimedSum(split(lists[1], "/")) + ClaimedCount(Tail(lists))

(* C18: normalizing a key the normalizer returned gives that key back.     *)
C18_Idempotent ==
    (Returned /\ npass > 0) => (~nout.panic /\ nout.key = nline)

(* C19: the register count of a line is the sum over its register lists    *)
(* and their '/'-separated segments: 1 for a single register, hi - lo + 1  *)
(* for a range, 1 for a malformed range (more than two members, or the     *)
(* high digit below the low one).                                          *)
C19_RegisterCount ==
    (Returned /\ npass = 0 /\ nbase.lists # <<>>) =>
        /\ ~nout.panic
        /\ nout.reg_count = [hi |-> 0, lo |-> ClaimedCount(nbase.lists)]

(* C20: an instruction written with more whitespace, in upper case, with   *)
(* an inline comment or behind a label, in any combination, has the key    *)
(* of the bare instruction.                                                *)
C20_KeyStability ==
    (Returned /\ npass = 0) =>
        nout.key = normalize_line_ext(nbase.text, nbuild).key

(* the branch family of the 68000: bra, bsr and the fourteen bcc           *)
BranchFamily ==
    {
      <<"b", "r", "a">>, <<"b", "s", "r">>, <<"b", "h", "i">>, <<"b", "l", "s">>,
      <<"b", "c", "c">>, <<"b", "c", "s">>, <<"b", "n", "e">>, <<"b", "e", "q">>,
      <<"b", "v", "c">>, <<"b", "v", "s">>, <<"b", "p", "l">>, <<"b", "m", "i">>,
      <<"b", "g", "e">>, <<"b", "l", "t">>, <<"b", "g", "t">>, <<"b", "l", "e">> }

(* the mnemonic up to its size suffix, and the suffix from the dot on *)
BaseName(token) == SubSeq(token, 1, RunNotIn(token, 1, {"."}))

SizeSuffix(token) == SubSeq(token, RunNotIn(token, 1, {"."}) + 1, Len(token))

ClaimedMnemonic(token) ==
    IF BaseName(token) \in {<<"l", "e", "a">>, <<"m", "o", "v", "e", "q">>}
    THEN BaseName(token) \o <<".", "l">>
    ELSE IF BaseName(token) \in BranchFamily
    THEN IF SizeSuffix(token) = <<".", "s">>
         THEN BaseName(token) \o <<".", "b">>
         ELSE BaseName(token) \o <<".", "w">>
    ELSE IF SizeSuffix(token) = <<>> THEN token \o <<".", "w">>
    ELSE token

Unlabelled(s) == \A k \in DOMAIN s : s[k] # ":"

(* C21: the key's mnemonic is the lower-cased source mnemonic with only    *)
(* its size suffix normalized: '.l' for lea and moveq, '.b' for a branch   *)
(* written with '.s' and '.w' for any other branch, '.w' for any other     *)
(* mnemonic without a suffix, an explicit suffix kept; the base name of a  *)
(* mnemonic outside the branch family (btst, bset, ...) is never cut.      *)
C21_MnemonicSuffix ==
    (Returned /\ npass = 0 /\ ~nout.panic /\ Unlabelled(nline)) =>
        first_token_of(nout.key) = ClaimedMnemonic(first_token_of(nbase.text))

(* C22: normalize_line_ext returns a key and a register count for every    *)
(* line, register ranges in descending order included; it never aborts.    *)
C22_NeverAborts == npc # "panic"

----------------------------------------------------------------------------
(* Further claims on accumulate_chunk and process_block *)

(* C28: at every step of an accumulate call the offset lies between        *)
(* initial_offset and initial_offset + target, and it never decreases,     *)
(* whatever the costs (zero and non-multiples of 4 included) and target.   *)
C28_NoOvershoot ==
    /\ [](pc # "idle" =>
            /\ initial_offset <= local_sum
            /\ local_sum <= initial_offset + target)
    /\ [][local_sum' >= local_sum]_vars

C28_Witness ==
    /\ pc = "done"
    /\ initial_offset > 0
    /\ local_sum > initial_offset
    /\ \E a, b \in 1..Len(chunk) :
          /\ chunk[a].tag = "annot" /\ chunk[a].cycles[1] = 0
          /\ chunk[b].tag = "annot" /\ chunk[b].cycles[1] % NopCycles # 0

(* the entry the chunk is to hold for a consumed line: the line itself     *)
(* for a blank, comment or set line, an annotated line of that text for    *)
(* an instruction, some entry of that text for a line without a cost       *)
EmittedAs(entry, line) ==
    IF line.blank \/ line.comment \/ line.set
    THEN entry = line
    ELSE IF RealInstruction(line)
    THEN entry.tag = "annot" /\ entry.text = line.text
    ELSE entry.text = line.text

(* the entries of c that are not filler lines, in order *)
RECURSIVE WithoutNops(_)
WithoutNops(c) ==
    IF c = <<>> THEN <<>>
    ELSE IF Head(c).tag = "nop" THEN WithoutNops(Tail(c))
    ELSE <<Head(c)>> \o WithoutNops(Tail(c))

(* C30: every line with index in [start_index, next_index) appears in the  *)
(* returned chunk, in input order (blank, comment and set lines verbatim,  *)
(* instructions annotated, equ directives and other lines without a cost   *)
(* included), and every other line of the chunk is a filler line.          *)
C30_ConsumedEmitted ==
    pc = "done" =>
        LET kept == WithoutNops(chunk)
        IN /\ Len(kept) = i - start_index
           /\ \A k \in 1..Len(kept) : EmittedAs(kept[k], lines[start_index + k])

(* exactly one close line, and plain lines around it *)
StrayClose(ls) ==
    /\ \E p \in 1..Len(ls) :
          /\ IsClose(ls[p])
          /\ \A k \in 1..Len(ls) : k # p => IsPlain(ls[k])

PlainLinesOf(ls) == SelectSeq(ls, IsPlain)

(* C29: the top-level call returns next_index = len(lines); the plain      *)
(* lines that follow a close line without an opener are in the output.     *)
C29_WholeInput ==
    bpc = "ret" =>
        /\ bnext = Len(blines)
        /\ StrayClose(blines) => bresult = PlainLinesOf(blines)

----------------------------------------------------------------------------
(* The driver's claims.  They read the stream, the output lines and the    *)
(* warnings only.                                                          *)

(* a step that completes a window *)
WindowStep == line_count' = line_count + 1

(* the lines that step pushed *)
NewOutput == SubSeq(final_output', Len(final_output) + 1, Len(final_output'))

NewDiagnostics == SubSeq(diagnostics', Len(diagnostics) + 1, Len(diagnostics'))

(* the cycles an output line stands for *)
EntryCycles(e) ==
    CASE e.tag \in {"inj", "annot"} -> e.cycles
      [] e.tag = "nop" -> NopCycles
      [] e.tag = "dcb" -> NopCycles * e.count
      [] OTHER -> 0

RECURSIVE Accounted(_)
Accounted(out) ==
    IF out = <<>> THEN 0 ELSE EntryCycles(Head(out)) + Accounted(Tail(out))

IsPadding(e) == e.tag = "dcb"

NotPadding(e) == e.tag # "dcb"

(* the instructions among the output lines, and among the first n lines    *)
(* of the stream, by their text and in order                               *)
RECURSIVE EmittedInstructions(_)
EmittedInstructions(out) ==
    IF out = <<>> THEN <<>>
    ELSE (IF Head(out).tag = "annot"
             \/ (Head(out).tag = "line" /\ RealInstruction(Head(out)))
          THEN <<Head(out).text>> ELSE <<>>)
         \o EmittedInstructions(Tail(out))

RECURSIVE StreamInstructions(_, _)
StreamInstructions(ls, n) ==
    IF n = 0 THEN <<>>
    ELSE StreamInstructions(ls, n - 1)
         \o (IF RealInstruction(ls[n]) THEN <<ls[n].text>> ELSE <<>>)

(* C23: every iteration of the window loop advances the stream index by    *)
(* at least one, also when an instruction costs more than every section's  *)
(* filler budget, when no section has a filler budget and when the         *)
(* template has no sections.                                               *)
C23_WindowAdvances == [][WindowStep => current_index' > current_index]_vars

(* C24: across the accumulate calls of the driver, each starting at the    *)
(* index the previous one returned, the instructions emitted so far are    *)
(* the instructions of the stream before the current index, each once and  *)
(* in stream order; an instruction left by an overflow split is where the  *)
(* next call starts.                                                       *)
C24_InOrderOnce ==
    dpc # "idle" =>
        /\ current_index <= Len(flat_lines)
        /\ EmittedInstructions(final_output)
               = StreamInstructions(flat_lines, current_index)

C24_Witness ==
    /\ dpc = "done"
    /\ line_count >= 2
    /\ Len(StreamInstructions(flat_lines, Len(flat_lines))) >= 2
    /\ EmittedInstructions(final_output)
           = StreamInstructions(flat_lines, Len(flat_lines))
    /\ \E a, b \in 1..Len(final_output) :
          /\ a < b
          /\ final_output[a].tag = "nop"
          /\ final_output[b].tag = "annot"

(* C25: the cycles a window accounts for (injection costs, accumulated     *)
(* chunks and the padding directive of remaining / 4 fillers) are 512      *)
(* exactly, or a warning is raised for it.                                 *)
C25_WindowTotal ==
    [][WindowStep =>
          \/ Accounted(NewOutput) = SCANLINE_CYCLES
          \/ NewDiagnostics # <<>>]_vars

(* C26: the window's running offset and the cycle total its padding or     *)
(* overflow decision is taken on both advance by what the accumulate       *)
(* calls actually accumulated: every "Calculated cycles" line carries the  *)
(* cycles of the lines before it, and the padding and the overflow warning *)
(* are those of that same total.                                           *)
C26_ActualPropagated ==
    [][WindowStep =>
          LET new == NewOutput
              actual == Accounted(SelectSeq(new, NotPadding))
              padding == SelectSeq(new, IsPadding)
              nop_count == (SCANLINE_CYCLES - actual) \div NopCycles
          IN /\ \A p \in 1..Len(new) :
                   new[p].tag = "calc" =>
                       new[p].offset = Accounted(SubSeq(new, 1, p - 1))
             /\ IF actual < SCANLINE_CYCLES /\ nop_count > 0
                THEN Len(padding) = 1 /\ padding[1].count = nop_count
                ELSE padding = <<>>
             /\ (actual > SCANLINE_CYCLES) <=>
                    (\E d \in 1..Len(NewDiagnostics) :
                        NewDiagnostics[d].tag = "overflow")]_vars

====
